---- MODULE Spec2Model ----
(***************************************************************************)
(* KlipperScreen session controller (screen.py): the update gate           *)
(* (updating / update_queue), the initialization sequencer (init_printer), *)
(* the connection lifecycle (connect_printer / websocket_disconnected) and *)
(* the panel navigation stack.                                             *)
(*                                                                         *)
(* Every handler of the GLib main loop runs to completion, so each action  *)
(* below is one whole handler.  The controller state is gathered in a      *)
(* record (St), the handlers are operators from records to records that    *)
(* follow the statements of the source in order.  The field `trace` of the *)
(* record is the log of what one handler did, in order: the requests it    *)
(* sent, the callbacks it called, the timers it added, the panels it       *)
(* touched.  It starts empty in every turn and is no state of the program. *)
(***************************************************************************)
EXTENDS Naturals, Sequences, FiniteSets

VARIABLES
    updating,               \* KlipperScreen.updating
    update_queue,           \* KlipperScreen.update_queue (the callbacks; each entry is [callback])
    reinit_count,           \* KlipperScreen.reinit_count
    connecting,             \* KlipperScreen.connecting
    connecting_to_printer,  \* KlipperScreen.connecting_to_printer
    connected_printer,      \* KlipperScreen.connected_printer
    ws,                     \* KlipperScreen._ws: "none", "connecting" (not connected) or "open" (connected)
    printer,                \* KlipperScreen.printer: [alive, state, inited, cache]
    files,                  \* KlipperScreen.files: "None", "new" or "initialized"
    cur_panels,             \* KlipperScreen._cur_panels
    panels,                 \* keys of KlipperScreen.panels
    subscriptions,          \* KlipperScreen.subscriptions
    popup_message,          \* KlipperScreen.popup_message is not None
    timers,                 \* pending GLib.timeout_add_seconds(3, self.init_printer) sources
    reconnect               \* history: "busy" from an on_close handled with the gate busy, while
                            \* the gate stays busy, until on_connect; else "no"

vars == <<updating, update_queue, reinit_count, connecting, connecting_to_printer,
          connected_printer, ws, printer, files, cur_panels, panels, subscriptions,
          popup_message, timers, reconnect>>

(* ------------------------------ bounds --------------------------------- *)

\* longest deferred queue explored while every handler of the program takes turns
MaxDeferred == 1

\* longest deferred queue explored while the handlers of the gate alone take turns
MaxQueue == 2

\* most init_printer retry timers pending together
MaxTimers == 1

\* deepest navigation stack explored
MaxStack == 3

(* ------------------------- program constants --------------------------- *)

max_retries == 4

Printers == {"p1", "p2"}

\* the keys of printer.state_callbacks
Callbacks == {"disconnected", "error", "paused", "printing", "ready", "startup", "shutdown"}

\* panels kept by _remove_all_panels
PersistentPanels == {"printer_select", "splash_screen"}

\* panels a menu item opens on top of the current one
MenuPanels == {"move", "settings"}

\* panels whose class defines process_update / activate / deactivate
HasProcessUpdate == {"main_panel", "job_status", "move"}

HasActivate == {"main_panel", "job_status", "printer_select", "move"}

HasDeactivate == {"job_status", "move"}

\* what the REST client returns to one run of init_printer: False (FALSE here)
\* or a result; server/info also tells whether Klipper is connected.  A request
\* the run never makes has no answer to vary, so it is left at TRUE.
Responses ==
    {r \in [server : {"False", "klippy_down", "ok"},
            info   : BOOLEAN,
            config : BOOLEAN,
            data   : BOOLEAN,
            temp   : BOOLEAN] :
        /\ (~r.info => r.server = "ok")
        /\ (~r.config => r.server = "ok" /\ r.info)
        /\ (~r.data => r.server = "ok" /\ r.info /\ r.config)
        /\ (~r.temp => r.server = "ok" /\ r.info /\ r.config /\ r.data)}

NoResponse == [server |-> "False", info |-> TRUE, config |-> TRUE, data |-> TRUE, temp |-> TRUE]

NewPrinter == [alive |-> TRUE, state |-> "disconnected", inited |-> FALSE, cache |-> {}]

NoPrinter == [alive |-> FALSE, state |-> "disconnected", inited |-> FALSE, cache |-> {}]

(* ------------------------- the state as a record ----------------------- *)

St ==
    [updating |-> updating, update_queue |-> update_queue, reinit_count |-> reinit_count,
     connecting |-> connecting, connecting_to_printer |-> connecting_to_printer,
     connected_printer |-> connected_printer, ws |-> ws, printer |-> printer,
     files |-> files, cur_panels |-> cur_panels, panels |-> panels,
     subscriptions |-> subscriptions, popup_message |-> popup_message,
     timers |-> timers, trace |-> <<>>]

Becomes(s) ==
    /\ updating' = s.updating
    /\ update_queue' = s.update_queue
    /\ reinit_count' = s.reinit_count
    /\ connecting' = s.connecting
    /\ connecting_to_printer' = s.connecting_to_printer
    /\ connected_printer' = s.connected_printer
    /\ ws' = s.ws
    /\ printer' = s.printer
    /\ files' = s.files
    /\ cur_panels' = s.cur_panels
    /\ panels' = s.panels
    /\ subscriptions' = s.subscriptions
    /\ popup_message' = s.popup_message
    /\ timers' = s.timers

\* one entry of the trace: what was done (e) and to what (a)
Ev(s, e, a) == [s EXCEPT !.trace = Append(@, [e |-> e, a |-> a])]

InStack(s, p) == \E i \in 1..Len(s.cur_panels) : s.cur_panels[i] = p

(* --------------------------- navigation stack -------------------------- *)

close_popup_message(s) == [s EXCEPT !.popup_message = FALSE]

add_subscription(s, panel_name) ==
    IF \E i \in 1..Len(s.subscriptions) : s.subscriptions[i] = panel_name
    THEN s
    ELSE [s EXCEPT !.subscriptions = Append(@, panel_name)]

remove_all_panels(s) ==
    Ev([s EXCEPT !.subscriptions = <<>>,
                 !.cur_panels = <<>>,
                 !.panels = @ \cap PersistentPanels],
       "remove_all_panels", "")

\* Printer.change_state: no-op when the state is unchanged; else the state is
\* set and the callback bound to it is handed to state_cb, which runs it in a
\* main-loop turn of its own
change_state_always(s, state) ==
    Ev([s EXCEPT !.printer.state = state], "state_cb", state)

change_state(s, state) ==
    IF state = s.printer.state THEN s
    ELSE Ev([s EXCEPT !.printer.state = state], "state_cb", state)

\* self.printer is None before the first connect_printer: the attribute
\* lookup raises once the panels are removed
reload_panels(s) ==
    LET s1 == remove_all_panels(Ev(s, "reload_panels", ""))
    IN  IF ~s1.printer.alive THEN Ev(s1, "raise", "AttributeError")
        ELSE change_state(s1, s1.printer.state)

\* the subscriptions without panel_name (list.remove)
Unsubscribed(subs, panel_name) ==
    LET Other(x) == x # panel_name IN SelectSeq(subs, Other)

\* the part of _remove_current_panel that shows the new top
show_new_top(s) ==
    IF Len(s.cur_panels) = 0 THEN s
    ELSE LET top == s.cur_panels[Len(s.cur_panels)]
             s1  == Ev(s, "add_content", top)
             s2  == IF top \in HasActivate THEN Ev(s1, "activate", top) ELSE s1
         IN  IF top \in HasProcessUpdate THEN add_subscription(s2, top) ELSE s2

\* _remove_current_panel, were it to leave the subscription of the removed panel
remove_current_panel_subscribed(s, pop) ==
    IF Len(s.cur_panels) <= 0 THEN reload_panels(s)
    ELSE LET top == s.cur_panels[Len(s.cur_panels)]
             s1  == Ev(s, "remove_content", top)
             s2  == IF top \in HasDeactivate THEN Ev(s1, "deactivate", top) ELSE s1
         IN  IF ~pop THEN s2
             ELSE show_new_top([s2 EXCEPT !.cur_panels = SubSeq(@, 1, Len(@) - 1)])

remove_current_panel(s, pop) ==
    IF Len(s.cur_panels) <= 0 THEN reload_panels(s)
    ELSE LET top == s.cur_panels[Len(s.cur_panels)]
             s1  == Ev(s, "remove_content", top)
             s2  == IF top \in HasDeactivate THEN Ev(s1, "deactivate", top) ELSE s1
             s3  == [s2 EXCEPT !.subscriptions = Unsubscribed(@, top)]
         IN  IF ~pop THEN s3
             ELSE show_new_top([s3 EXCEPT !.cur_panels = SubSeq(@, 1, Len(@) - 1)])

\* show_panel with remove = 2 (pop all), 1 (pop current, if pop) or 0 (None);
\* ok: the panel's module loads and its constructor does not raise
show_panel(s, panel_name, remove, pop, ok) ==
    LET s1 == IF remove = 2 THEN remove_all_panels(s)
              ELSE IF remove = 1 THEN remove_current_panel(s, pop)
              ELSE s
    IN  IF panel_name \notin s1.panels /\ ~ok
        THEN Ev(s1, "show_error_modal", panel_name)
        ELSE LET s2 == [s1 EXCEPT !.panels = @ \cup {panel_name}]
                 s3 == Ev(s2, "add_content", panel_name)
                 s4 == IF panel_name \in HasProcessUpdate
                       THEN add_subscription(s3, panel_name) ELSE s3
                 s5 == IF panel_name \in HasActivate
                       THEN Ev(s4, "activate", panel_name) ELSE s4
             IN  [s5 EXCEPT !.cur_panels = Append(@, panel_name)]

\* _menu_go_back; autoclose: the autoclose_popups option of the configuration
menu_go_back(s, autoclose) ==
    LET s1 == Ev(s, "remove_keyboard", "")
        s2 == IF autoclose THEN close_popup_message(s1) ELSE s1
    IN  remove_current_panel(s2, TRUE)

\* the loop of _menu_go_home: while len(self._cur_panels) > 1
RECURSIVE go_home_loop(_)
go_home_loop(s) ==
    IF Len(s.cur_panels) > 1 THEN go_home_loop(remove_current_panel(s, TRUE)) ELSE s

\* _menu_go_home, were its loop an if
menu_go_home_once(s) ==
    LET s1 == close_popup_message(Ev(s, "remove_keyboard", ""))
    IN  IF Len(s1.cur_panels) > 1 THEN remove_current_panel(s1, TRUE) ELSE s1

\* _menu_go_home
menu_go_home(s) == go_home_loop(close_popup_message(Ev(s, "remove_keyboard", "")))

\* show_popup_message (its autoclose timer is not followed)
show_popup_message(s, level) ==
    Ev([close_popup_message(s) EXCEPT !.popup_message = TRUE], "show_popup_message", level)

show_printer_select(s) == show_panel(s, "printer_select", 2, TRUE, TRUE)

\* the splash_screen panel ships with the program: its load succeeds
printer_initializing(s, msg, remove) ==
    LET s1 == close_popup_message(s)
        s2 == IF "splash_screen" \notin s1.panels \/ remove
              THEN show_panel(s1, "splash_screen", 2, TRUE, TRUE) ELSE s1
    IN  Ev(s2, "update_text", msg)

\* printer_ready, were it to show the main menu on top of the stack (remove=None)
printer_ready_on_top(s, ok) ==
    Ev(show_panel(close_popup_message(s), "main_panel", 0, TRUE, ok), "base_panel_show_all", "")

printer_ready(s, ok) ==
    Ev(show_panel(close_popup_message(s), "main_panel", 2, TRUE, ok), "base_panel_show_all", "")

printer_printing(s, ok) ==
    Ev(show_panel(close_popup_message(s), "job_status", 2, TRUE, ok), "base_panel_show_all", "")

(* ----------------------- state-transition callbacks -------------------- *)

state_disconnected(s) == printer_initializing(s, "Klipper has disconnected", TRUE)

state_error(s) == printer_initializing(s, "Klipper has encountered an error", TRUE)

state_paused(s, ok) == IF ~InStack(s, "job_status") THEN printer_printing(s, ok) ELSE s

\* state_printing, were it to show the print-progress view whatever the stack
\* holds
state_printing_always(s, ok) == printer_printing(s, ok)

state_printing(s, ok) ==
    IF ~InStack(s, "job_status") THEN printer_printing(s, ok)
    ELSE Ev(s, "new_print", "job_status")

\* state_ready, were it to show the main menu whatever the stack holds
state_ready_always(s, ok) == printer_ready(s, ok)

state_ready(s, ok) == IF InStack(s, "job_status") THEN s ELSE printer_ready(s, ok)

state_startup(s) == printer_initializing(s, "Klipper is attempting to start", FALSE)

state_shutdown(s) == printer_initializing(s, "Klipper has shutdown", TRUE)

\* callback(): the call of one entry of printer.state_callbacks
Call(s, callback, ok) ==
    LET s1 == Ev(s, "callback", callback)
    IN  CASE callback = "disconnected" -> state_disconnected(s1)
          [] callback = "error"        -> state_error(s1)
          [] callback = "paused"       -> state_paused(s1, ok)
          [] callback = "printing"     -> state_printing(s1, ok)
          [] callback = "ready"        -> state_ready(s1, ok)
          [] callback = "startup"      -> state_startup(s1)
          [] callback = "shutdown"     -> state_shutdown(s1)

(* ----------------------- initialization sequencer ---------------------- *)

\* the retry made by a direct call of init_printer (its probe failing) instead
\* of a timer
retry_by_direct_call(s) ==
    Ev(Ev(Ev(s, "init_printer", "enter"), "request", "server/info"), "init_printer", "return")

\* GLib.timeout_add_seconds(3, self.init_printer)
timeout_add_init_printer(s) == Ev([s EXCEPT !.timers = @ + 1], "timeout_add", "init_printer")

\* the text init_printer shows when Klipper is not connected
KlippyDownMsg(s) ==
    IF s.reinit_count <= max_retries THEN "Klipper not connected, Retrying"
    ELSE "Klipper not connected"

\* init_apply, were a failed temperature-store request to end the run like the
\* failures before it
init_apply_temp_fatal(s, r) ==
    LET s1 == Ev(s, "request", "server/temperature_store")
        s2 == Ev(s1, "init_temp_store", "")
        s3 == Ev([s2 EXCEPT !.printer.cache = @ \cup {"bulk"}], "process_update", "bulk")
        s4 == Ev([s3 EXCEPT !.files = "initialized"], "files_initialize", "")
    IN  IF ~r.temp
        THEN timeout_add_init_printer(
                 printer_initializing(s1, "Error getting temperature store", FALSE))
        ELSE [s4 EXCEPT !.reinit_count = 0]

\* stages after the bulk fetch succeeded: temperature store, apply, files
init_apply(s, r) ==
    LET s1 == Ev(s, "request", "server/temperature_store")
        s2 == IF r.temp THEN Ev(s1, "init_temp_store", "") ELSE s1
        s3 == Ev([s2 EXCEPT !.printer.cache = @ \cup {"bulk"}], "process_update", "bulk")
        s4 == Ev([s3 EXCEPT !.files = "initialized"], "files_initialize", "")
    IN  [s4 EXCEPT !.reinit_count = 0]

\* printer.reinit(printer_info, config): the printer model is rebuilt from the
\* configuration, its object-status cache replaced wholesale and its topology
\* (get_tools, get_heaters, ... read right after it) recomputed
printer_reinit(s) ==
    Ev([s EXCEPT !.printer.inited = TRUE, !.printer.cache = {"config"}], "reinit", "")

\* init_reinit, were it to apply the result of the bulk fetch without testing it
init_reinit_unchecked(s, r) ==
    LET s1 == printer_reinit(s)
        s2 == Ev(s1, "ws_subscribe", "")
        s3 == Ev(s2, "request", "printer/objects/query")
    IN  init_apply(s3, r)

\* stages after the configuration arrived: reinit, subscribe, bulk fetch
init_reinit(s, r) ==
    LET s1 == printer_reinit(s)
        s2 == Ev(s1, "ws_subscribe", "")
        s3 == Ev(s2, "request", "printer/objects/query")
    IN  IF ~r.data
        THEN timeout_add_init_printer(
                 printer_initializing(s3, "Error getting printer object data with extra items", FALSE))
        ELSE init_apply(s3, r)

\* stages after the link check passed: printer info, configuration
init_identity(s, r) ==
    LET s1 == Ev(s, "request", "printer/info")
    IN  IF ~r.info
        THEN timeout_add_init_printer(
                 printer_initializing(s1, "Unable to get printer info from moonraker", FALSE))
        ELSE LET s2 == Ev(s1, "request", "printer/objects/query?configfile")
             IN  IF ~r.config
                 THEN timeout_add_init_printer(
                          printer_initializing(s2, "Error getting printer configuration", FALSE))
                 ELSE init_reinit(s2, r)

\* stages after the reachability probe succeeded: counters, power devices (their
\* list goes to the printer model and to nothing modelled here), link check
init_link(s, r) ==
    LET s1 == [s EXCEPT !.connecting = (s.ws # "open"),
                        !.connected_printer = s.connecting_to_printer,
                        !.reinit_count = @ + 1]
        s3 == Ev(s1, "request", "machine/device_power/devices")
    IN  IF r.server = "klippy_down"
        THEN timeout_add_init_printer(printer_initializing(s3, KlippyDownMsg(s3), FALSE))
        ELSE init_identity(s3, r)

\* the guard of init_printer, were it to consult the update gate as well
init_refused_when_busy(s) ==
    s.updating \/ s.reinit_count > max_retries \/ InStack(s, "printer_select")

\* the guard of init_printer, were it to compare with >= in place of >
init_refused_off_by_one(s) == s.reinit_count >= max_retries \/ InStack(s, "printer_select")

\* the guard of init_printer, were it to look at the counter only
init_refused_by_count(s) == s.reinit_count > max_retries

\* the guard of init_printer
init_refused(s) == s.reinit_count > max_retries \/ InStack(s, "printer_select")

init_printer(s, r) ==
    LET s0 == Ev(s, "init_printer", "enter")
        s1 == IF init_refused(s0) THEN s0
              ELSE LET s2 == Ev(s0, "request", "server/info")
                   IN  IF r.server = "False" THEN s2 ELSE init_link(s2, r)
    IN  Ev(s1, "init_printer", "return")

(* ------------------------------ update gate ---------------------------- *)

is_updating(s) == s.updating

\* state_execute, were it never to look at the gate
state_execute_ungated(s, callback, r, ok) == Call(init_printer(s, r), callback, ok)

state_execute(s, callback, r, ok) ==
    IF is_updating(s)
    THEN [s EXCEPT !.update_queue = Append(@, callback)]
    ELSE Call(init_printer(s, r), callback, ok)

\* the calls of every entry of a queue, oldest first
RECURSIVE CallAll(_, _, _)
CallAll(s, queue, ok) ==
    IF queue = <<>> THEN s ELSE CallAll(Call(s, Head(queue), ok), Tail(queue), ok)

\* set_updating, were the release to drain the queue in order
set_updating_fifo(s, b, ok) ==
    LET s1 == IF s.updating /\ ~b /\ Len(s.update_queue) > 0
              THEN CallAll([s EXCEPT !.update_queue = <<>>], s.update_queue, ok)
              ELSE s
    IN  [s1 EXCEPT !.updating = b]

\* set_updating, were the release to take the oldest entry (pop(0))
set_updating_first(s, b, ok) ==
    LET s1 == IF s.updating /\ ~b /\ Len(s.update_queue) > 0
              THEN Call([s EXCEPT !.update_queue = <<>>], s.update_queue[1], ok)
              ELSE s
    IN  [s1 EXCEPT !.updating = b]

\* set_updating, were the release to pop one entry and keep the others
set_updating_keep(s, b, ok) ==
    LET s1 == IF s.updating /\ ~b /\ Len(s.update_queue) > 0
              THEN Call([s EXCEPT !.update_queue = SubSeq(@, 1, Len(@) - 1)],
                        s.update_queue[Len(s.update_queue)], ok)
              ELSE s
    IN  [s1 EXCEPT !.updating = b]

\* set_updating, were the release to call the newest entry and leave the queue
\* as it is
set_updating_no_clear(s, b, ok) ==
    LET s1 == IF s.updating /\ ~b /\ Len(s.update_queue) > 0
              THEN Call(s, s.update_queue[Len(s.update_queue)], ok)
              ELSE s
    IN  [s1 EXCEPT !.updating = b]

set_updating(s, b, ok) ==
    LET s1 == IF s.updating /\ ~b /\ Len(s.update_queue) > 0
              THEN Call([s EXCEPT !.update_queue = <<>>],
                        s.update_queue[Len(s.update_queue)], ok)
              ELSE s
    IN  [s1 EXCEPT !.updating = b]

(* --------------------------- connection lifecycle ---------------------- *)

connect_printer(s, name) ==
    LET s0 == Ev([s EXCEPT !.connecting_to_printer = name], "connect_printer", name)
    IN  IF s0.ws = "open"
        THEN Ev(s0, "ws_close", "")
        ELSE LET s1 == [s0 EXCEPT !.printer = NewPrinter]
                 s2 == remove_all_panels(s1)
                 s3 == printer_initializing(s2, "Connecting", FALSE)
                 s4 == Ev([s3 EXCEPT !.ws = "connecting"], "KlippyWebsocket", name)
             IN  Ev([s4 EXCEPT !.files = "new"], "initial_connect", name)

\* websocket_disconnected, were it to reconnect to the printer it was connected to
websocket_disconnected_to_last(s) ==
    LET s1 == printer_initializing(s, "closed", TRUE)
        s2 == [s1 EXCEPT !.connecting = TRUE,
                         !.connected_printer = "None",
                         !.files = "None",
                         !.printer = NoPrinter]
    IN  connect_printer(s2, s.connected_printer)

websocket_disconnected(s) ==
    LET s1 == printer_initializing(s, "closed", TRUE)
        s2 == [s1 EXCEPT !.connecting = TRUE,
                         !.connected_printer = "None",
                         !.files = "None",
                         !.printer = NoPrinter]
    IN  connect_printer(s2, s2.connecting_to_printer)

(* ------------------------------ notifications ------------------------- *)

\* the actions of the messages Moonraker pushes; "notify_proc_stat_update"
\* stands for every action _websocket_callback has no branch for
Notifications ==
    {"notify_klippy_disconnected", "notify_klippy_shutdown", "notify_klippy_ready",
     "notify_status_update", "notify_filelist_changed", "notify_metadata_update",
     "notify_update_response", "notify_power_changed", "notify_gcode_response",
     "notify_proc_stat_update"}

\* the payloads _websocket_callback tells apart, by action
Payloads(action) ==
    CASE action = "notify_update_response" -> {"Error", "done"}
      [] action = "notify_gcode_response"  -> {"B:", "echo: ", "!! ", "SAVE_CONFIG", "ok"}
      [] OTHER                             -> {"data"}

\* Printer.process_update: the payload is merged into the cache
printer_process_update(s, data) ==
    Ev([s EXCEPT !.printer.cache = @ \cup {"delta"}], "printer_process_update", data)

\* the notify_status_update branch, were it not to look at the printer state
status_update_unguarded(s, data) == printer_process_update(s, data)

\* the notify_status_update branch
status_update(s, data) ==
    IF s.printer.state # "shutdown" THEN printer_process_update(s, data) ELSE s

\* the notify_gcode_response branch
gcode_response(s, data) ==
    IF s.printer.state \in {"error", "shutdown"} \/ data = "B:" THEN s
    ELSE LET s1 == IF data = "echo: " THEN show_popup_message(s, "1")
                   ELSE IF data = "!! " THEN show_popup_message(s, "3")
                   ELSE s
         IN  IF data = "SAVE_CONFIG" /\ s1.printer.state = "ready"
             THEN Ev(s1, "confirm_send_action", "SAVE_CONFIG") ELSE s1

\* the last statements of _websocket_callback: the base panel, then the top
\* panel when it is subscribed
deliver(s, action) ==
    LET s1 == Ev(s, "base_panel_process_update", action)
    IN  IF s1.cur_panels # <<>>
           /\ \E i \in 1..Len(s1.subscriptions) :
                  s1.subscriptions[i] = s1.cur_panels[Len(s1.cur_panels)]
        THEN Ev(s1, "panel_process_update", s1.cur_panels[Len(s1.cur_panels)])
        ELSE s1

\* the branches of _websocket_callback that do not return; a branch that
\* raises leaves the handler there
branches(s, action, data) ==
    CASE action = "notify_klippy_shutdown" -> change_state(s, "shutdown")
      [] action = "notify_klippy_ready" -> change_state(s, "ready")
      [] action = "notify_status_update" -> status_update(s, data)
      [] action = "notify_filelist_changed" ->
             IF s.files # "None" THEN Ev(s, "files_process_update", data) ELSE s
      [] action = "notify_metadata_update" ->
             IF s.files # "None" THEN Ev(s, "files_request_metadata", data)
             ELSE Ev(s, "raise", "AttributeError")
      [] action = "notify_update_response" ->
             IF data = "Error" THEN show_popup_message(s, "3") ELSE s
      [] action = "notify_power_changed" ->
             LET s1 == Ev(s, "process_power_update", data)
             IN  IF "splash_screen" \in s1.panels THEN Ev(s1, "check_power_status", "")
                 ELSE Ev(s1, "raise", "KeyError")
      [] action = "notify_gcode_response" -> gcode_response(s, data)
      [] OTHER -> s

Raised(s) == s.trace # <<>> /\ s.trace[Len(s.trace)].e = "raise"

\* _websocket_callback, were notify_klippy_disconnected to fall through to the
\* panels as the other actions do
websocket_callback_no_return(s, action, data) ==
    IF s.connecting THEN s
    ELSE LET s1 == IF action = "notify_klippy_disconnected"
                   THEN change_state(s, "disconnected")
                   ELSE branches(s, action, data)
         IN  IF Raised(s1) THEN s1 ELSE deliver(s1, action)

\* _websocket_callback, were it not to look at the connecting flag
websocket_callback_while_connecting(s, action, data) ==
    IF action = "notify_klippy_disconnected" THEN change_state(s, "disconnected")
    ELSE LET s1 == branches(s, action, data)
         IN  IF Raised(s1) THEN s1 ELSE deliver(s1, action)

websocket_callback(s, action, data) ==
    IF s.connecting THEN s
    ELSE IF action = "notify_klippy_disconnected" THEN change_state(s, "disconnected")
    ELSE LET s1 == branches(s, action, data)
         IN  IF Raised(s1) THEN s1 ELSE deliver(s1, action)

(* ------------------------------- the program --------------------------- *)

\* the class attributes of KlipperScreen before __init__ runs
Blank ==
    [updating |-> FALSE, update_queue |-> <<>>, reinit_count |-> 0,
     connecting |-> FALSE, connecting_to_printer |-> "None",
     connected_printer |-> "None", ws |-> "none", printer |-> NoPrinter,
     files |-> "None", cur_panels |-> <<>>, panels |-> {},
     subscriptions |-> <<>>, popup_message |-> FALSE,
     timers |-> 0, trace |-> <<>>]

\* __init__ ends with initial_connection: the default (or only) printer is
\* connected to, or the printer selection is shown
initial_connection ==
    {connect_printer(Blank, name) : name \in Printers} \cup {show_printer_select(Blank)}

Init ==
    \E s \in initial_connection :
        /\ updating = s.updating
        /\ update_queue = s.update_queue
        /\ reinit_count = s.reinit_count
        /\ connecting = s.connecting
        /\ connecting_to_printer = s.connecting_to_printer
        /\ connected_printer = s.connected_printer
        /\ ws = s.ws
        /\ printer = s.printer
        /\ files = s.files
        /\ cur_panels = s.cur_panels
        /\ panels = s.panels
        /\ subscriptions = s.subscriptions
        /\ popup_message = s.popup_message
        /\ timers = s.timers
        /\ reconnect = "no"

\* the bounds of the exploration
Within(s) ==
    /\ s.timers <= MaxTimers
    /\ Len(s.update_queue) <= MaxDeferred
    /\ Len(s.cur_panels) <= MaxStack

Turn(s) == Within(s) /\ Becomes(s)

\* a turn of the gate's handlers, the queue explored further
GateTurn(s) == s.timers <= MaxTimers /\ Len(s.update_queue) <= MaxQueue /\ Becomes(s)

\* the answers a run of init_printer started in s can get
Answers(s) == IF init_refused(s) THEN {NoResponse} ELSE Responses

\* the outcomes of loading the panel a callback shows
Loads(callback) == IF callback \in {"paused", "printing", "ready"} THEN BOOLEAN ELSE {TRUE}

\* the user picks a printer on the printer selection panel
ConnectPrinter ==
    \E name \in Printers :
        /\ InStack(St, "printer_select")
        /\ Turn(connect_printer(St, name))
        /\ reconnect' = IF ws = "open" THEN reconnect ELSE "no"

\* the user opens the printer selection
ShowPrinterSelect ==
    /\ Turn(show_printer_select(St))
    /\ UNCHANGED reconnect

\* the websocket opened: on_connect is init_printer
OnConnect ==
    /\ ws = "connecting"
    /\ \E r \in Answers(St) :
           Turn(init_printer([St EXCEPT !.ws = "open"], r))
    /\ reconnect' = "no"

\* the websocket closed: on_close is websocket_disconnected
OnClose ==
    /\ ws = "open"
    /\ Turn(websocket_disconnected([St EXCEPT !.ws = "closed"]))
    /\ reconnect' = IF updating THEN "busy" ELSE "no"

\* a retry timer expires: its callback is init_printer, which returns None
TimerFires ==
    /\ timers > 0
    /\ \E r \in Answers(St) :
           Turn(init_printer([St EXCEPT !.timers = @ - 1], r))
    /\ UNCHANGED reconnect

\* the printer model reports a state change through its state_cb
StateExecute ==
    /\ printer.alive
    /\ \E callback \in Callbacks :
       \E r \in (IF updating THEN {NoResponse} ELSE Answers(St)) :
       \E ok \in (IF updating THEN {TRUE} ELSE Loads(callback)) :
           Turn(state_execute(St, callback, r, ok))
    /\ UNCHANGED reconnect

\* a panel opens or releases the update gate
SetUpdating ==
    \E b \in BOOLEAN :
    \E ok \in (IF updating /\ ~b /\ Len(update_queue) > 0
               THEN Loads(update_queue[Len(update_queue)]) ELSE {TRUE}) :
        /\ Turn(set_updating(St, b, ok))
        /\ reconnect' = IF b THEN reconnect ELSE "no"

Next ==
    \/ ConnectPrinter
    \/ ShowPrinterSelect
    \/ OnConnect
    \/ OnClose
    \/ TimerFires
    \/ StateExecute
    \/ SetUpdating

Spec == Init /\ [][Next]_vars

\* the update gate on its own: after construction only its two handlers take
\* turns, state_execute on the state changes the printer model reports and
\* set_updating on the panels that open and release the gate
GateStateExecute ==
    /\ printer.alive
    /\ \E callback \in Callbacks :
       \E r \in (IF updating THEN {NoResponse} ELSE Answers(St)) :
       \E ok \in (IF updating THEN {TRUE} ELSE Loads(callback)) :
           GateTurn(state_execute(St, callback, r, ok))
    /\ UNCHANGED reconnect

GateSetUpdating ==
    \E b \in BOOLEAN :
    \E ok \in (IF updating /\ ~b /\ Len(update_queue) > 0
               THEN Loads(update_queue[Len(update_queue)]) ELSE {TRUE}) :
        /\ GateTurn(set_updating(St, b, ok))
        /\ UNCHANGED reconnect

GateNext ==
    \/ GateStateExecute
    \/ GateSetUpdating

GateSpec == Init /\ [][GateNext]_vars

\* a menu item, or a panel, asks for a panel on top of the one shown
ShowPanel ==
    /\ cur_panels # <<>>
    /\ cur_panels[Len(cur_panels)] # "printer_select"
    /\ \E panel_name \in MenuPanels :
       \E remove \in {0, 1} :
       \E pop \in (IF remove = 1 THEN BOOLEAN ELSE {TRUE}) :
       \E ok \in (IF panel_name \in panels THEN {TRUE} ELSE BOOLEAN) :
           Turn(show_panel(St, panel_name, remove, pop, ok))
    /\ UNCHANGED reconnect

\* the back button, shown (show_back) while the stack holds two panels or more
MenuGoBack ==
    /\ Len(cur_panels) > 1
    /\ \E autoclose \in (IF popup_message THEN BOOLEAN ELSE {TRUE}) :
           Turn(menu_go_back(St, autoclose))
    /\ UNCHANGED reconnect

\* the Escape key
MenuGoHome ==
    /\ Turn(menu_go_home(St))
    /\ UNCHANGED reconnect

\* a message arrives on the open websocket: on_message is _websocket_callback
WebsocketCallback ==
    /\ ws = "open"
    /\ \E action \in Notifications :
       \E data \in Payloads(action) :
           Turn(websocket_callback(St, action, data))
    /\ UNCHANGED reconnect

\* the navigation stack: one connection, the state callbacks and the user
\* moving through the menus
NavNext ==
    \/ OnConnect
    \/ StateExecute
    \/ ShowPanel
    \/ MenuGoBack
    \/ MenuGoHome

NavSpec == Init /\ [][NavNext]_vars

\* the notifications: one connection, its messages and the state callbacks
MsgNext ==
    \/ OnConnect
    \/ StateExecute
    \/ WebsocketCallback

MsgSpec == Init /\ [][MsgNext]_vars

\* the connection lifecycle: the printers picked, the websocket opening and
\* closing, the retry timers
ConnNext ==
    \/ ConnectPrinter
    \/ ShowPrinterSelect
    \/ OnConnect
    \/ OnClose
    \/ TimerFires

ConnSpec == Init /\ [][ConnNext]_vars

\* the sessions: the websocket opening and closing, the messages of the open
\* socket and the state callbacks
SessionNext ==
    \/ OnConnect
    \/ OnClose
    \/ StateExecute
    \/ WebsocketCallback

SessionSpec == Init /\ [][SessionNext]_vars

(* --------------------------- reading a trace --------------------------- *)

\* how often a handler did e to a
Count(s, e, a) == Cardinality({i \in 1..Len(s.trace) : s.trace[i].e = e /\ s.trace[i].a = a})

\* the reachability probes (server/info requests) of a handler
Probes(s) == Count(s, "request", "server/info")

\* the state callbacks a handler called, in order
IsCallback(x) == x.e = "callback"

Invoked(s) ==
    LET calls == SelectSeq(s.trace, IsCallback)
    IN  [i \in 1..Len(calls) |-> calls[i].a]

\* the entries and returns of init_printer in a handler's trace, in order
IsInitPrinter(x) == x.e = "init_printer"

\* every init_printer run of the handler returned before the next one was
\* entered: the entries and returns alternate, an entry first
OneAtATime(s) ==
    LET runs == SelectSeq(s.trace, IsInitPrinter)
    IN  \A i \in 1..Len(runs) : runs[i].a = (IF i % 2 = 1 THEN "enter" ELSE "return")

AllOk == [server |-> "ok", info |-> TRUE, config |-> TRUE, data |-> TRUE, temp |-> TRUE]

(* -------------------------------- claims ------------------------------- *)

\* C1: in every reachable state, whichever handler the main loop runs next and
\* whatever it is given, the init_printer runs of that handler never overlap: a
\* run has returned before another is entered (handlers themselves run one at a
\* time, to completion).
C1_OneInitAtATime ==
    /\ \A callback \in Callbacks :
       \A r \in (IF updating THEN {NoResponse} ELSE Answers(St)) :
       \A ok \in Loads(callback) :
           OneAtATime(state_execute(St, callback, r, ok))
    /\ \A r \in Answers(St) : OneAtATime(init_printer(St, r))
    /\ \A b \in BOOLEAN, ok \in BOOLEAN : OneAtATime(set_updating(St, b, ok))
    /\ OneAtATime(websocket_disconnected(St))
    /\ \A name \in Printers : OneAtATime(connect_printer(St, name))

\* a state, reached with a retry timer pending, in which state_execute runs the
\* whole sequence once and then calls its callback
C1_Witness ==
    /\ ~updating /\ printer.alive /\ timers > 0 /\ ~init_refused(St)
    /\ Count(state_execute(St, "ready", AllOk, TRUE), "init_printer", "enter") = 1
    /\ Count(state_execute(St, "ready", AllOk, TRUE), "process_update", "bulk") = 1
    /\ Invoked(state_execute(St, "ready", AllOk, TRUE)) = <<"ready">>

\* C2: while the gate is busy, state_execute(callback) sends no request, enters
\* no init_printer run and calls no callback, whatever it is given: the controller
\* afterwards is the controller before with callback appended to update_queue.
C2_BusyOnlyDefers ==
    updating =>
        \A callback \in Callbacks, r \in Responses, ok \in BOOLEAN :
            state_execute(St, callback, r, ok)
                = [St EXCEPT !.update_queue = Append(@, callback)]

\* the gate is busy, an action was deferred, and an open gate would have let the
\* sequence start
C2_Witness ==
    /\ updating /\ printer.alive /\ update_queue = <<"ready">>
    /\ reinit_count <= max_retries /\ ~InStack(St, "printer_select")

\* the release of a busy gate: set_updating(False) while updating
Release(ok) == set_updating(St, FALSE, ok)

\* C3: a release of the busy gate with n >= 1 deferred actions calls exactly one
\* callback and leaves the queue empty; with none deferred it calls no callback;
\* either way the gate is then not busy.
C3_ReleaseReplaysOne ==
    updating =>
        \A ok \in BOOLEAN :
            LET s2 == Release(ok)
            IN  /\ Len(Invoked(s2)) = (IF Len(update_queue) >= 1 THEN 1 ELSE 0)
                /\ s2.update_queue = <<>>
                /\ ~s2.updating

\* a busy gate holding as many deferred actions as the bound allows
C3_Witness ==
    /\ updating /\ Len(update_queue) = MaxQueue
    /\ Len(Invoked(Release(TRUE))) = 1

\* C4: the callbacks a release calls are the most recently deferred one and no
\* other: every action deferred earlier in the busy period is dropped uncalled.
C4_LastCallWins ==
    (updating /\ Len(update_queue) >= 1) =>
        \A ok \in BOOLEAN :
            Invoked(Release(ok)) = <<update_queue[Len(update_queue)]>>

\* two different actions are deferred and the release calls the later one
C4_Witness ==
    /\ updating /\ Len(update_queue) = 2 /\ update_queue[1] # update_queue[2]
    /\ Invoked(Release(TRUE)) = <<update_queue[2]>>

\* C5 as claimed: a release empties the queue and calls the first deferred action
\* (the one enqueued earliest).
C5_FirstDeferred ==
    (updating /\ Len(update_queue) >= 1) =>
        \A ok \in BOOLEAN :
            /\ Release(ok).update_queue = <<>>
            /\ Invoked(Release(ok)) = <<update_queue[1]>>

\* C5 as amended: a release replaces the queue by the empty queue, and the action
\* it calls is the last deferred one (the one enqueued latest); the first deferred
\* one is called only when it is also the last.
C5_LastDeferred ==
    (updating /\ Len(update_queue) >= 1) =>
        \A ok \in BOOLEAN :
            LET s2 == Release(ok)
                called == Invoked(s2)
            IN  /\ s2.update_queue = <<>>
                /\ Len(called) >= 1
                /\ called[1] = update_queue[Len(update_queue)]
                /\ (update_queue[1] # update_queue[Len(update_queue)] =>
                        \A i \in 1..Len(called) : called[i] # update_queue[1])

\* "shutdown" was deferred first and "ready" last: the release shows the main menu
C5_Witness ==
    /\ updating /\ update_queue = <<"shutdown", "ready">>
    /\ Release(TRUE).cur_panels = <<"main_panel">>
    /\ Release(TRUE).update_queue = <<>>

\* on_connect: the websocket is connected and the hook, init_printer, runs
OnConnectRun(r) == init_printer([St EXCEPT !.ws = "open"], r)

\* a reconnect with the gate busy all along: on_close was handled while the gate
\* was busy, the gate is still busy, and the new websocket is about to open
BusyReconnect == reconnect = "busy" /\ updating /\ ws = "connecting"

LinkDown == {r \in Responses : r.server = "klippy_down"}

\* C7 as claimed: the run of init_printer that records failure max_retries + 1
\* (the counter stood at max_retries) shows the terminal message and schedules no
\* timer.
C7_NoTimerAtBound ==
    (ws # "none" /\ reinit_count = max_retries /\ ~InStack(St, "printer_select")) =>
        \A r \in LinkDown :
            LET s2 == init_printer(St, r)
            IN  /\ Count(s2, "update_text", "Klipper not connected") = 1
                /\ Count(s2, "timeout_add", "init_printer") = 0
                /\ s2.timers = timers

\* C7 as amended: a link-down run that leaves the counter at or below max_retries
\* shows the message with the retry counter and schedules a timer; the run that
\* raises the counter to max_retries + 1 shows the terminal message (no retry
\* counter) and still schedules one timer; and once the counter exceeds
\* max_retries a run of init_printer (that timer's expiry included) returns at its
\* guard: no request, no message, no timer, nothing changed.  So no retry is
\* made after max_retries + 1 consecutive link-down failures.
C7_LastTimerIsIdle ==
    ws # "none" =>
        /\ (reinit_count < max_retries /\ ~InStack(St, "printer_select")) =>
               \A r \in LinkDown :
                   LET s2 == init_printer(St, r)
                   IN  /\ Count(s2, "update_text", "Klipper not connected, Retrying") = 1
                       /\ s2.timers = timers + 1
        /\ (reinit_count = max_retries /\ ~InStack(St, "printer_select")) =>
               \A r \in LinkDown :
                   LET s2 == init_printer(St, r)
                   IN  /\ s2.reinit_count = max_retries + 1
                       /\ Count(s2, "update_text", "Klipper not connected") = 1
                       /\ Count(s2, "update_text", "Klipper not connected, Retrying") = 0
                       /\ s2.timers = timers + 1
        /\ reinit_count > max_retries =>
               \A r \in Responses :
                   /\ init_printer(St, r).trace
                          = <<[e |-> "init_printer", a |-> "enter"],
                              [e |-> "init_printer", a |-> "return"]>>
                   /\ [init_printer(St, r) EXCEPT !.trace = <<>>] = St

\* the counter stands at max_retries + 1 and the timer of the terminal run is
\* pending: its expiry changes nothing
C7_Witness ==
    /\ reinit_count = max_retries + 1 /\ timers >= 1 /\ ws # "none"
    /\ ~InStack(St, "printer_select")
    /\ [init_printer([St EXCEPT !.timers = @ - 1], AllOk) EXCEPT !.trace = <<>>]
           = [St EXCEPT !.timers = @ - 1]

\* C8 as claimed: with the counter above max_retries, a fresh on_connect whose
\* reachability probe succeeds resets the counter, so the sequence runs again (the
\* probe is sent, and the counter afterwards counts this run at most).
C8_ConnectResetsCounter ==
    (ws = "connecting" /\ reinit_count > max_retries /\ ~InStack(St, "printer_select")) =>
        \A r \in Responses :
            r.server # "False" =>
                LET s2 == OnConnectRun(r)
                IN  /\ Probes(s2) = 1
                    /\ s2.reinit_count <= 1

\* C9 as claimed: with the counter above max_retries, a direct init_printer call
\* and a state_execute with the gate open still run the sequence: each sends the
\* reachability probe.
C9_ManualRetriggerRuns ==
    (ws # "none" /\ printer.alive /\ ~updating
        /\ reinit_count > max_retries /\ ~InStack(St, "printer_select")) =>
        \A r \in Responses :
            /\ Probes(init_printer(St, r)) = 1
            /\ \A callback \in Callbacks : Probes(state_execute(St, callback, r, TRUE)) = 1

\* the answers with which a run of init_printer fails at one of its stages
Failing == {r \in Responses : r.server # "ok" \/ ~r.info \/ ~r.config \/ ~r.data}

\* the panel on top of the stack, the one the user sees
Top(s) == IF s.cur_panels = <<>> THEN "None" ELSE s.cur_panels[Len(s.cur_panels)]

\* C10 as claimed: every run of init_printer that fails at a stage schedules a
\* retry or puts a message on a panel the user sees.
C10_NoSilentFailure ==
    (ws # "none" /\ reinit_count <= max_retries /\ ~InStack(St, "printer_select")) =>
        \A r \in Failing :
            LET s2 == init_printer(St, r)
            IN  \/ s2.timers > timers
                \/ /\ \E i \in 1..Len(s2.trace) : s2.trace[i].e = "update_text"
                   /\ Top(s2) = "splash_screen"

\* C11 as claimed: show_panel(view_id, ..., remove=None) with view_id already on
\* top of the stack leaves the stack unchanged, and no view identifier is on the
\* stack twice.
C11_NoDuplicatePush ==
    /\ (cur_panels # <<>> /\ Top(St) \in panels) =>
           show_panel(St, Top(St), 0, TRUE, TRUE).cur_panels = cur_panels
    /\ \A i, j \in 1..Len(cur_panels) : cur_panels[i] = cur_panels[j] => i = j

\* C12 as claimed: between the turns of the main loop the navigation stack is
\* never empty (every initial state shows a first view).
C12_StackNeverEmpty == cur_panels # <<>>

\* panel_name is in the subscriptions of s
Subscribed(s, panel_name) ==
    \E i \in 1..Len(s.subscriptions) : s.subscriptions[i] = panel_name

\* C13: _menu_go_back on a stack of two views or more removes the top view and
\* no other: the top's content is removed, it is deactivated (if it can be) and
\* is no longer subscribed; the view below becomes the top, its content is
\* added, it is activated (if it can be) and subscribed (if it receives
\* updates); the views below keep their places and no instance is dropped.
C13_GoBackPopsTop ==
    Len(cur_panels) >= 2 =>
        \A autoclose \in BOOLEAN :
            LET s2  == menu_go_back(St, autoclose)
                n   == Len(cur_panels)
                top == cur_panels[n]
                new == cur_panels[n - 1]
            IN  /\ s2.cur_panels = SubSeq(cur_panels, 1, n - 1)
                /\ s2.panels = panels
                /\ Count(s2, "remove_content", top) = 1
                /\ Count(s2, "deactivate", top) = (IF top \in HasDeactivate THEN 1 ELSE 0)
                /\ (top # new => ~Subscribed(s2, top))
                /\ Count(s2, "add_content", new) = 1
                /\ Count(s2, "activate", new) = (IF new \in HasActivate THEN 1 ELSE 0)
                /\ (new \in HasProcessUpdate => Subscribed(s2, new))
                /\ Count(s2, "reload_panels", "") = 0

\* the move panel, subscribed, lies on the main menu: going back leaves the main
\* menu alone on the stack, subscribed
C13_Witness ==
    /\ cur_panels = <<"main_panel", "move">>
    /\ Subscribed(St, "move")
    /\ menu_go_back(St, TRUE).cur_panels = <<"main_panel">>
    /\ menu_go_back(St, TRUE).subscriptions = <<"main_panel">>
    /\ Count(menu_go_back(St, TRUE), "deactivate", "move") = 1

\* C14 as claimed: _menu_go_back with exactly one view on the stack pops
\* nothing: the stack is unchanged and reload_panels is called.
C14_LastViewStays ==
    Len(cur_panels) = 1 =>
        \A autoclose \in BOOLEAN :
            /\ menu_go_back(St, autoclose).cur_panels = cur_panels
            /\ Count(menu_go_back(St, autoclose), "reload_panels", "") = 1

\* how often a handler removed the content of a panel
Removals(s) ==
    Cardinality({i \in 1..Len(s.trace) : s.trace[i].e = "remove_content"})

C16_ReadyKeepsProgressView ==
    InStack(St, "job_status") =>
        /\ \A ok \in BOOLEAN : [Call(St, "ready", ok) EXCEPT !.trace = <<>>] = St
        /\ \A ok \in BOOLEAN : Call(St, "ready", ok).trace = <<[e |-> "callback", a |-> "ready"]>>
        /\ LET s2 == websocket_callback(St, "notify_klippy_ready", "data")
           IN  /\ s2.cur_panels = cur_panels
               /\ s2.panels = panels
               /\ s2.subscriptions = subscriptions
               /\ ~connecting => s2.printer.state = "ready"
        /\ ~updating =>
               \A r \in Answers(St), ok \in BOOLEAN :
                   /\ state_execute(St, "ready", r, ok).cur_panels = cur_panels
                   /\ Count(state_execute(St, "ready", r, ok), "remove_all_panels", "") = 0

\* job_status is shown, the printer state is not ready and the message is not
\* dropped: the state becomes ready and job_status stays on top
C16_Witness ==
    /\ cur_panels = <<"job_status">> /\ ws = "open" /\ ~connecting
    /\ printer.state # "ready"
    /\ websocket_callback(St, "notify_klippy_ready", "data").printer.state = "ready"
    /\ Top(websocket_callback(St, "notify_klippy_ready", "data")) = "job_status"
    /\ Top(Call(St, "ready", TRUE)) = "job_status"

\* how often a handler called process_update of the base panel / of a panel
BaseDeliveries(s) ==
    Cardinality({i \in 1..Len(s.trace) : s.trace[i].e = "base_panel_process_update"})

PanelDeliveries(s) ==
    Cardinality({i \in 1..Len(s.trace) : s.trace[i].e = "panel_process_update"})

\* C17 as claimed: every notification the controller processes (the connecting
\* flag is down) is passed to process_update of the base panel and of the panel
\* on top of the stack.
C17_AllDelivered ==
    (ws = "open" /\ ~connecting) =>
        \A action \in Notifications :
        \A data \in Payloads(action) :
            LET s2 == websocket_callback(St, action, data)
            IN  /\ Count(s2, "base_panel_process_update", action) = 1
                /\ cur_panels # <<>> => Count(s2, "panel_process_update", Top(St)) = 1

\* C17 as amended: a notification other than notify_klippy_disconnected that the
\* controller processes is passed once to process_update of the base panel, and
\* once to that of the top panel when the top panel is subscribed, to no panel
\* otherwise; notify_klippy_disconnected changes the printer state and is passed
\* to no panel, the base panel included; and no branch raises.
C17_DeliveredUnlessDisconnected ==
    (ws = "open" /\ ~connecting) =>
        \A action \in Notifications :
        \A data \in Payloads(action) :
            LET s2 == websocket_callback(St, action, data)
            IN  /\ ~Raised(s2)
                /\ s2.cur_panels = cur_panels
                /\ IF action = "notify_klippy_disconnected"
                   THEN /\ BaseDeliveries(s2) = 0
                        /\ PanelDeliveries(s2) = 0
                        /\ s2.printer.state = "disconnected"
                   ELSE /\ BaseDeliveries(s2) = 1
                        /\ Count(s2, "base_panel_process_update", action) = 1
                        /\ IF cur_panels # <<>> /\ Subscribed(St, Top(St))
                           THEN /\ PanelDeliveries(s2) = 1
                                /\ Count(s2, "panel_process_update", Top(St)) = 1
                           ELSE PanelDeliveries(s2) = 0

\* the main menu is shown and subscribed: a status update reaches the base panel
\* and the main menu, notify_klippy_disconnected reaches neither
C17_Witness ==
    /\ ws = "open" /\ ~connecting /\ printer.state = "ready"
    /\ cur_panels = <<"main_panel">> /\ Subscribed(St, "main_panel")
    /\ Count(websocket_callback(St, "notify_status_update", "data"),
             "panel_process_update", "main_panel") = 1
    /\ BaseDeliveries(websocket_callback(St, "notify_status_update", "data")) = 1
    /\ BaseDeliveries(websocket_callback(St, "notify_klippy_disconnected", "data")) = 0

\* C18: while the printer state is shutdown, a notify_status_update message is
\* not merged: Printer.process_update is not called and the printer model, its
\* cache included, is the same after the message as before; in any other state
\* a message the controller processes is merged once.
C18_ShutdownRejectsDelta ==
    ws = "open" =>
        LET s2 == websocket_callback(St, "notify_status_update", "data")
        IN  /\ printer.state = "shutdown" =>
                   /\ s2.printer = printer
                   /\ Count(s2, "printer_process_update", "data") = 0
            /\ (printer.state # "shutdown" /\ ~connecting) =>
                   /\ Count(s2, "printer_process_update", "data") = 1
                   /\ s2.printer.cache = printer.cache \cup {"delta"}

\* the printer state is shutdown, the controller processes messages and no
\* delta has been merged since the last initialization: the message reaches the
\* base panel and the cache stays without a delta
C18_Witness ==
    /\ ws = "open" /\ ~connecting /\ printer.state = "shutdown"
    /\ printer.cache = {"config", "bulk"}
    /\ websocket_callback(St, "notify_status_update", "data").printer.cache = {"config", "bulk"}
    /\ BaseDeliveries(websocket_callback(St, "notify_status_update", "data")) = 1

\* on_close: the websocket is no longer connected and the hook,
\* websocket_disconnected, runs
OnCloseRun(s) == websocket_disconnected([s EXCEPT !.ws = "closed", !.trace = <<>>])

\* the connections a handler started
Connects(s) == Cardinality({i \in 1..Len(s.trace) : s.trace[i].e = "initial_connect"})

\* C19: on_close of the open websocket leaves no connected printer, a new file
\* registry and a new printer model, raises the connecting flag, and starts
\* exactly one connection, to connecting_to_printer, which it keeps.  A
\* connect_printer(name) called while the websocket is open starts no connection
\* and keeps the session: it records name and closes the websocket, and the
\* on_close that follows starts exactly one connection, to name.
C19_CloseReconnectsToTarget ==
    ws = "open" =>
        /\ LET s2 == OnCloseRun(St)
           IN  /\ s2.connected_printer = "None"
               /\ s2.files = "new"
               /\ s2.printer = NewPrinter
               /\ s2.connecting
               /\ s2.connecting_to_printer = connecting_to_printer
               /\ s2.ws = "connecting"
               /\ Connects(s2) = 1
               /\ Count(s2, "initial_connect", connecting_to_printer) = 1
        /\ \A name \in Printers :
               LET s1 == connect_printer(St, name)
                   s3 == OnCloseRun(s1)
               IN  /\ Connects(s1) = 0
                   /\ Count(s1, "ws_close", "") = 1
                   /\ s1.connecting_to_printer = name
                   /\ s1.printer = printer /\ s1.files = files
                   /\ s1.connected_printer = connected_printer
                   /\ Connects(s3) = 1
                   /\ Count(s3, "initial_connect", name) = 1

\* the session of p1 is initialized and the user has asked for p2 while the
\* websocket of p1 is still open: its on_close connects to p2
C19_Witness ==
    /\ ws = "open" /\ connected_printer = "p1" /\ connecting_to_printer = "p2"
    /\ files = "initialized" /\ printer.inited
    /\ Count(OnCloseRun(St), "initial_connect", "p2") = 1
    /\ OnCloseRun(St).files = "new"
    /\ ~OnCloseRun(St).printer.inited

\* the callbacks a handler handed to state_cb
StateCbs(s) == Cardinality({i \in 1..Len(s.trace) : s.trace[i].e = "state_cb"})

Unreachable == {r \in Responses : r.server = "False"}

\* C21 as claimed: a run of init_printer whose reachability probe fails schedules
\* a delayed retry (one more timer pending) and leaves the attempt counter as it
\* was.
C21_ProbeFailureRetries ==
    (ws # "none" /\ ~init_refused(St)) =>
        \A r \in Unreachable :
            LET s2 == init_printer(St, r)
            IN  /\ Probes(s2) = 1
                /\ Count(s2, "timeout_add", "init_printer") = 1
                /\ s2.timers = timers + 1
                /\ s2.reinit_count = reinit_count

\* the stages of init_printer in the order of its text: reachability probe (the
\* link check reads its answer), identity, configuration, reinit, subscription
\* install, bulk fetch, apply
StageOrder ==
    <<[e |-> "request", a |-> "server/info"],
      [e |-> "request", a |-> "printer/info"],
      [e |-> "request", a |-> "printer/objects/query?configfile"],
      [e |-> "reinit", a |-> ""],
      [e |-> "ws_subscribe", a |-> ""],
      [e |-> "request", a |-> "printer/objects/query"],
      [e |-> "process_update", a |-> "bulk"]>>

IsStage(x) == \E i \in 1..Len(StageOrder) : StageOrder[i] = x

\* the stages a handler executed, in order
Stages(s) == SelectSeq(s.trace, IsStage)

\* how many of the stages a run with the answers r gets through: up to and
\* including the first that fails
StagesRun(r) ==
    IF r.server # "ok" THEN 1
    ELSE IF ~r.info THEN 2
    ELSE IF ~r.config THEN 3
    ELSE IF ~r.data THEN 6
    ELSE 7

\* the answers that fail the identity, the configuration or the bulk fetch
FailsAfterLink == {r \in Responses : r.server = "ok" /\ (~r.info \/ ~r.config \/ ~r.data)}

\* C22: a run of init_printer executes its stages in the fixed order probe, link
\* check, identity, configuration, reinit and subscription install, bulk fetch,
\* apply, and stops at the first stage that fails (the link check passed exactly
\* when the attempt counter was raised and the identity was asked for); a failure
\* of the identity, configuration or bulk-fetch stage schedules one timer whose
\* expiry, unless refused at the guard, starts again with the probe.
C22_StagesInOrder ==
    (ws # "none" /\ ~init_refused(St)) =>
        \A r \in Responses :
            LET s2 == init_printer(St, r)
            IN  /\ Stages(s2) = SubSeq(StageOrder, 1, StagesRun(r))
                /\ (r.server = "False") => s2.reinit_count = reinit_count
                /\ (r.server # "False") =>
                       (s2.reinit_count = reinit_count + 1 \/ StagesRun(r) = 7)
                /\ (r \in FailsAfterLink) =>
                       /\ Count(s2, "timeout_add", "init_printer") = 1
                       /\ s2.timers = timers + 1
                       /\ \A r2 \in Responses :
                              LET s3 == init_printer([s2 EXCEPT !.timers = @ - 1,
                                                                !.trace = <<>>], r2)
                              IN  \/ init_refused(s2)
                                  \/ Stages(s3)[1] = StageOrder[1]

\* a run failed at the bulk fetch: the printer model was reinitialised, nothing
\* was applied, the counter stands at 1 and the retry is pending
C22_Witness ==
    /\ printer.inited /\ printer.cache = {"config"} /\ files # "initialized"
    /\ reinit_count = 1 /\ timers = 1 /\ ws = "open"

\* C23 as claimed: a run of init_printer that fails at any stage before the
\* apply, the bulk fetch included, leaves the printer model (its object-status
\* cache and the topology computed at its reinitialisation) as it was.
C23_OnlyApplyMutates ==
    (ws # "none" /\ ~init_refused(St)) =>
        \A r \in Failing : init_printer(St, r).printer = printer

\* C24: while printer_select is on the navigation stack a call of init_printer
\* returns at its guard whatever the REST client would answer: it sends no
\* request (the probe included), schedules no timer, and leaves the attempt
\* counter, the connecting flag, the connected printer, the printer model and
\* everything else as they were.
C24_SelectionRefusesInit ==
    InStack(St, "printer_select") =>
        \A r \in Responses :
            LET s2 == init_printer(St, r)
            IN  /\ s2.trace = <<[e |-> "init_printer", a |-> "enter"],
                                [e |-> "init_printer", a |-> "return"]>>
                /\ Probes(s2) = 0
                /\ s2.timers = timers
                /\ s2.reinit_count = reinit_count
                /\ s2.connecting = connecting
                /\ s2.connected_printer = connected_printer
                /\ s2.printer = printer
                /\ [s2 EXCEPT !.trace = <<>>] = St

\* the printer selection is shown while a retry timer is pending and the counter
\* is within its bound: the expiry calls init_printer, which is refused for the
\* selection alone
C24_Witness ==
    /\ InStack(St, "printer_select") /\ timers >= 1 /\ reinit_count <= max_retries
    /\ [init_printer([St EXCEPT !.timers = @ - 1], AllOk) EXCEPT !.trace = <<>>]
           = [St EXCEPT !.timers = @ - 1]

\* C25 as claimed: at most one retry timer of init_printer is pending, before and
\* after every turn that runs init_printer: an on_connect, a state_execute with
\* the gate open, and the expiry of a retry timer (which is no longer pending
\* when its callback runs).
C25_OneRetryPending ==
    /\ timers <= 1
    /\ (ws = "connecting") =>
           \A r \in Answers(St) : OnConnectRun(r).timers <= 1
    /\ (printer.alive /\ ~updating) =>
           \A callback \in Callbacks : \A r \in Answers(St) :
               state_execute(St, callback, r, TRUE).timers <= 1
    /\ (timers > 0) =>
           \A r \in Answers(St) : init_printer([St EXCEPT !.timers = @ - 1], r).timers <= 1

\* the panels show_panel is called for with remove = 2
PopAllPanels == {"main_panel", "job_status", "printer_select", "splash_screen"}

\* C26 as claimed: show_panel with remove = 2 deactivates every view that was on
\* the stack (each that has a deactivate method), drops every view instance but
\* the persistent ones, and empties the stack and the subscriptions before the
\* new view is pushed: afterwards the stack holds the new view alone and the
\* subscriptions hold at most the new view.
C26_PopAllDeactivates ==
    \A panel_name \in PopAllPanels :
        LET s2 == show_panel(St, panel_name, 2, TRUE, TRUE)
        IN  /\ \A i \in 1..Len(cur_panels) :
                   cur_panels[i] \in HasDeactivate =>
                       Count(s2, "deactivate", cur_panels[i]) >= 1
            /\ s2.panels \subseteq (PersistentPanels \cup {panel_name})
            /\ s2.cur_panels = <<panel_name>>
            /\ \A i \in 1..Len(s2.subscriptions) : s2.subscriptions[i] = panel_name

\* C27: a printing transition (state_printing, and the state_execute that runs it
\* with the gate open) while job_status is on the stack calls new_print on the
\* existing view and changes no navigation state: stack, view instances and
\* subscriptions are as before and nothing is removed or attached; while
\* job_status is not on the stack the view is shown with the pop-all policy (the
\* stack is emptied first and, the view loading, holds job_status alone).
C27_PrintingRefreshesInPlace ==
    printer.alive =>
        \A ok \in BOOLEAN :
            LET s2 == state_printing(St, ok)
            IN  /\ InStack(St, "job_status") =>
                       /\ Count(s2, "new_print", "job_status") = 1
                       /\ Len(s2.trace) = 1
                       /\ [s2 EXCEPT !.trace = <<>>] = St
                       /\ ~updating =>
                              \A r \in Answers(St) :
                                  LET s3 == state_execute(St, "printing", r, ok)
                                  IN  /\ s3.cur_panels = cur_panels
                                      /\ s3.panels = panels
                                      /\ s3.subscriptions = subscriptions
                                      /\ Count(s3, "new_print", "job_status") = 1
                                      /\ Count(s3, "remove_all_panels", "") = 0
                /\ ~InStack(St, "job_status") =>
                       /\ Count(s2, "new_print", "job_status") = 0
                       /\ Count(s2, "remove_all_panels", "") = 1
                       /\ s2.cur_panels = IF ok THEN <<"job_status">> ELSE <<>>

\* job_status lies under another panel when the printer model may report printing
C27_Witness ==
    /\ printer.alive /\ ~updating
    /\ Len(cur_panels) >= 2 /\ cur_panels[1] = "job_status"
    /\ state_printing(St, TRUE).cur_panels = cur_panels

\* the answers with which stages 1 to 6 succeed; the temperature store may fail
UpToBulkOk == {r \in Responses : r.server = "ok" /\ r.info /\ r.config /\ r.data}

\* C28: when the probe, the link check, the identity, the configuration and the
\* bulk fetch succeed, the run asks for the temperature store, applies the bulk
\* result, initialises the files, resets the attempt counter to 0 and schedules
\* no timer, whether the temperature store answered (init_temp_store is called)
\* or not (it is skipped); both runs end in the same state.
C28_TempStoreNonFatal ==
    (ws # "none" /\ ~init_refused(St)) =>
        \A r \in UpToBulkOk :
            LET s2 == init_printer(St, r)
            IN  /\ Count(s2, "request", "server/temperature_store") = 1
                /\ Count(s2, "init_temp_store", "") = (IF r.temp THEN 1 ELSE 0)
                /\ Count(s2, "process_update", "bulk") = 1
                /\ "bulk" \in s2.printer.cache
                /\ s2.files = "initialized"
                /\ s2.reinit_count = 0
                /\ Count(s2, "timeout_add", "init_printer") = 0
                /\ s2.timers = timers
                /\ [s2 EXCEPT !.trace = <<>>]
                       = [init_printer(St, AllOk) EXCEPT !.trace = <<>>]

\* a run went through to the apply while the counter stood above 0 (an earlier
\* run had failed and its timer is pending): the counter is back at 0
C28_Witness ==
    /\ files = "initialized" /\ printer.cache = {"config", "bulk"}
    /\ reinit_count = 0 /\ timers = 1 /\ ws = "open"

\* C29: whenever updating is false the queue of deferred callbacks is empty
\* (every release of the busy gate leaves it empty, whatever it held, and
\* state_execute appends to it only while the gate is busy), so a busy period
\* opens with an empty queue and replays nothing deferred in an earlier one.
C29_IdleGateHasEmptyQueue ==
    /\ ~updating => update_queue = <<>>
    /\ updating =>
           \A ok \in BOOLEAN :
               /\ ~Release(ok).updating
               /\ Release(ok).update_queue = <<>>
               /\ set_updating(Release(ok), TRUE, TRUE).update_queue = <<>>
    /\ (~updating /\ printer.alive) =>
           \A callback \in Callbacks : \A r \in Answers(St) :
               state_execute(St, callback, r, TRUE).update_queue = <<>>

\* the gate is busy with as many callbacks deferred as the exploration allows:
\* its release leaves none behind
C29_Witness ==
    /\ updating /\ Len(update_queue) = MaxQueue
    /\ ~Release(TRUE).updating
    /\ Release(TRUE).update_queue = <<>>

\* C30: on_close sets the connecting flag; a run of init_printer clears it exactly
\* when it is not refused, its reachability probe succeeds and the socket is
\* connected, and leaves it set otherwise; and while it is set _websocket_callback
\* returns at once for every notification: printer state, object-status cache,
\* navigation stack, popups and all else are unchanged, and neither the base
\* panel nor a view receives process_update.
C30_ConnectingDropsMessages ==
    /\ (ws = "open") => OnCloseRun(St).connecting
    /\ connecting =>
           /\ \A action \in Notifications : \A data \in Payloads(action) :
                  LET s2 == websocket_callback(St, action, data)
                  IN  /\ s2.trace = <<>>
                      /\ BaseDeliveries(s2) = 0
                      /\ PanelDeliveries(s2) = 0
                      /\ s2.printer = printer
                      /\ s2.cur_panels = cur_panels
                      /\ s2.popup_message = popup_message
                      /\ s2 = St
           /\ \A r \in Responses :
                  init_printer(St, r).connecting
                      = ~(~init_refused(St) /\ r.server # "False" /\ ws = "open")

\* the flag is set on an open socket (the probe of its on_connect failed): the
\* messages of the socket are dropped
C30_Witness ==
    /\ connecting /\ ws = "open" /\ printer.alive /\ cur_panels # <<>>
    /\ websocket_callback(St, "notify_klippy_ready", "data") = St

\* the view a state callback shows when it changes the navigation
Target(callback) ==
    CASE callback \in {"disconnected", "error", "shutdown", "startup"} -> "splash_screen"
      [] callback = "ready"                                            -> "main_panel"
      [] callback \in {"paused", "printing"}                           -> "job_status"

\* whether the callback changes the navigation in s: disconnected, error and
\* shutdown always do; startup when no splash screen exists yet; ready, paused
\* and printing unless job_status is on the stack
Navigates(s, callback) ==
    CASE callback \in {"disconnected", "error", "shutdown"} -> TRUE
      [] callback = "startup"                               -> "splash_screen" \notin s.panels
      [] callback \in {"ready", "paused", "printing"}       -> ~InStack(s, "job_status")

\* C31: a state callback either leaves the navigation as it is (stack, view
\* instances and subscriptions unchanged, nothing removed) or shows its target
\* view with the pop-all policy: _remove_all_panels runs once, no panel is
\* popped singly and, the target view loading, the stack holds the target alone
\* and the subscriptions hold at most the target: splash_screen after error,
\* shutdown and disconnected, main_panel after ready, job_status after printing
\* and paused (the last three unless job_status is on the stack).
C31_CallbacksPopAll ==
    printer.alive =>
        \A callback \in Callbacks :
            LET s2 == Call(St, callback, TRUE)
            IN  /\ Navigates(St, callback) =>
                       /\ Count(s2, "remove_all_panels", "") = 1
                       /\ \A i \in 1..Len(s2.trace) : s2.trace[i].e # "remove_content"
                       /\ s2.cur_panels = <<Target(callback)>>
                       /\ \A i \in 1..Len(s2.subscriptions) :
                              s2.subscriptions[i] = Target(callback)
                       /\ Len(s2.subscriptions) <= 1
                /\ ~Navigates(St, callback) =>
                       /\ Count(s2, "remove_all_panels", "") = 0
                       /\ s2.cur_panels = cur_panels
                       /\ s2.panels = panels
                       /\ s2.subscriptions = subscriptions

\* two views are on the stack, job_status not among them, when the printer model
\* may report ready: the callback leaves main_panel alone on the stack
C31_Witness ==
    /\ printer.alive /\ ~updating /\ Len(cur_panels) >= 2 /\ ~InStack(St, "job_status")
    /\ Len(subscriptions) >= 1
    /\ Call(St, "ready", TRUE).cur_panels = <<"main_panel">>

====
